---- MODULE Spec2Model ----
(***************************************************************************)
(* Model of the screenshot organizer's analyze endpoint                    *)
(* (src/app/api/analyze/route.ts, the two-phase POST handler):             *)
(* ingestion, the concurrent per-item analyses, the category synthesizer   *)
(* and the result assembly.                                                *)
(*                                                                         *)
(* Sequences are 1-based: the item at position p of allItems has the       *)
(* JavaScript index p - 1.                                                 *)
(***************************************************************************)
EXTENDS Integers, Sequences, FiniteSets, TLC

\* ------------------------------------------------------------------------
\* Bounds and program constants
\* ------------------------------------------------------------------------

\* Largest batch whose per-item responses are enumerated exhaustively.
MaxBatch == 3

\* "if (allItems.length > 10)"
MaxItems == 10

\* ".substring(0, 150)"
TextLimit == 150

\* "Math.min(100, ...)", "Math.max(0, ...)", "|| 50", "confidence: 20"
ConfidenceMax == 100
ConfidenceMin == 0
ConfidenceDefault == 50
ConfidenceFallback == 20

Min2(a, b) == IF a <= b THEN a ELSE b

\* ------------------------------------------------------------------------
\* JavaScript values
\* ------------------------------------------------------------------------

\* A JavaScript number: NaN, or int + frac/10 with int the floor.
Num(i, f) == [nan |-> FALSE, int |-> i, frac |-> f]
NaN == [nan |-> TRUE, int |-> 0, frac |-> 0]

\* A JSON value found in the "confidence" member.
\* t: "number", "numstring" (a string of digits), "string" (any other
\* string), "null", "true", "undefined" (member absent).
JVal(t, i, f) == [t |-> t, int |-> i, frac |-> f]

\* Number(x)
ToNumber(v) ==
  CASE v.t = "number"    -> Num(v.int, v.frac)
    [] v.t = "numstring" -> Num(v.int, v.frac)
    [] v.t = "null"      -> Num(0, 0)
    [] v.t = "true"      -> Num(1, 0)
    [] OTHER             -> NaN

\* x || d for a number x: NaN and 0 are falsy
OrDefault(x, d) == IF x.nan \/ (x.int = 0 /\ x.frac = 0) THEN d ELSE x

NumLess(a, b) == a.int < b.int \/ (a.int = b.int /\ a.frac < b.frac)

\* Math.max / Math.min on two numbers, neither NaN
MathMax(a, b) == IF NumLess(a, b) THEN b ELSE a
MathMin(a, b) == IF NumLess(b, a) THEN b ELSE a

\* Math.min(100, Math.max(0, Number(analysis.confidence) || 50))
CleanConfidence(raw) ==
  MathMin(Num(ConfidenceMax, 0),
          MathMax(Num(ConfidenceMin, 0),
                  OrDefault(ToNumber(raw), Num(ConfidenceDefault, 0))))

\* A string as far as the handler looks at it: which text it is a prefix
\* of, and how many characters of it are kept.  The empty string (and an
\* absent member, equally falsy) is Str("", 0).
Str(id, len) == [id |-> id, len |-> len]

\* Substring without the truncation
Substring_Unbounded(s, limit) == s

\* String(x || "").substring(0, 150)
Substring(s, limit) == Str(s.id, Min2(s.len, limit))

\* A short name with an optional numeric suffix: `image_document_${index + 1}`
\* is Name("image_document_", index + 1); a name without suffix has n = 0.
Name(base, n) == [base |-> base, n |-> n]
NoName == Name("", 0)

\* .replace(/\s+/g, '_') on the content strings the responses use
CollapseWhitespace(s) ==
  CASE s = "pay slip"     -> "pay_slip"
    [] s = "login  form"  -> "login_form"
    [] OTHER              -> s

\* .toLowerCase() on the theme strings the responses use
ToLowerCase(s) ==
  CASE s = "Finance" -> "finance"
    [] s = "CODE"    -> "code"
    [] OTHER         -> s

\* ------------------------------------------------------------------------
\* Response text and its parsing
\* ------------------------------------------------------------------------

\* A response text is a sequence of tokens:
\*   "fence"   a markdown fence (``` or ```json)
\*   "json"    the bare word json
\*   "prose"   any text that is not JSON
\*   "{" "}"   braces;  "members" the members of the object the text carries
\*   "null"    the JSON literal null;  "num" a JSON number
Tokens == {"fence", "json", "prose", "{", "}", "members", "null", "num"}

RECURSIVE RemoveAll(_, _)
RemoveAll(toks, t) ==
  IF toks = <<>> THEN <<>>
  ELSE IF Head(toks) = t THEN RemoveAll(Tail(toks), t)
       ELSE <<Head(toks)>> \o RemoveAll(Tail(toks), t)

\* .replace(/```json\n?/g, '').replace(/```\n?/g, '').replace(/^json\n?/g, '').trim()
CleanResponseText(toks) ==
  LET unfenced == RemoveAll(toks, "fence")
  IN IF unfenced # <<>> /\ Head(unfenced) = "json" THEN Tail(unfenced)
     ELSE unfenced

\* JSON.parse: the kind of value parsed, or "error" when it throws
JSONParse(toks) ==
  CASE toks = <<"{", "members", "}">> -> "object"
    [] toks = <<"{", "}">>            -> "empty"
    [] toks = <<"null">>              -> "null"
    [] toks = <<"num">>               -> "number"
    [] OTHER                          -> "error"

Positions(toks, t) == {i \in 1..Len(toks) : toks[i] = t}
SetMin(S) == CHOOSE x \in S : \A y \in S : x <= y
SetMax(S) == CHOOSE x \in S : \A y \in S : x >= y

\* text.match(/\{[\s\S]*\}/): from the first "{" to the last "}" (greedy),
\* <<>> when there is no match
BraceMatch(toks) ==
  LET opens == Positions(toks, "{")
      closes == Positions(toks, "}")
  IN IF opens = {} \/ closes = {} THEN <<>>
     ELSE IF SetMin(opens) > SetMax(closes) THEN <<>>
     ELSE SubSeq(toks, SetMin(opens), SetMax(closes))

\* ------------------------------------------------------------------------
\* Requests and ingestion
\* ------------------------------------------------------------------------

\* An uploaded file: declared type, name (stem and extension), contents,
\* and whether the image library can transcode it.
File(type, stem, ext, bytes, sharpOk) ==
  [type |-> type, stem |-> stem, ext |-> ext, bytes |-> bytes, sharpOk |-> sharpOk]

PngFile  == File("image/png", "shot", "png", 1, FALSE)
ScreenFile == File("image/png", "screen", "png", 5, FALSE)
PdfFile  == File("application/pdf", "doc", "pdf", 2, FALSE)
HeicFile == File("image/heic", "photo", "HEIC", 3, TRUE)
BadHeicFile == File("", "live", "heic", 4, FALSE)
HeicTypeFile == File("image/heic", "pic", "heif", 6, FALSE)
ScanHeicFile == File("", "scan", "heic", 7, TRUE)
TxtFile == File("text/plain", "notes", "txt", 8, FALSE)

\* file.name.toLowerCase() on the extensions the files use
LowerExt(ext) == IF ext = "HEIC" THEN "heic" ELSE ext

\* file.type.startsWith('image/')
IsImageType(type) == type \in {"image/png", "image/jpeg", "image/heic"}

\* An item of allItems: {type: 'image', data, name?}.  data is the data URL:
\* its media type and the bytes it encodes (enc tells whether they are the
\* uploaded bytes or the transcoded JPEG).
Item(mime, bytes, enc, stem, ext) ==
  [type |-> "image", mime |-> mime, bytes |-> bytes, enc |-> enc,
   stem |-> stem, ext |-> ext]

\* processFile labelling the bytes image/jpeg also when the conversion failed
processFile_AlwaysJpeg(file) ==
  LET isHeic == file.type = "image/heic" \/ LowerExt(file.ext) = "heic"
  IN IF isHeic
     THEN [bytes |-> file.bytes, enc |-> IF file.sharpOk THEN "jpeg" ELSE "orig",
           mimeType |-> "image/jpeg"]
     ELSE [bytes |-> file.bytes, enc |-> "orig", mimeType |-> file.type]

\* processFile: the bytes (uploaded, or transcoded when the file is HEIC and
\* sharp succeeds) and the media type they are labelled with
processFile(file) ==
  LET isHeic == file.type = "image/heic" \/ LowerExt(file.ext) = "heic"
  IN IF isHeic /\ file.sharpOk
     THEN [bytes |-> file.bytes, enc |-> "jpeg", mimeType |-> "image/jpeg"]
     ELSE [bytes |-> file.bytes, enc |-> "orig", mimeType |-> file.type]

RECURSIVE IngestFiles(_)
IngestFiles(fs) ==
  IF fs = <<>> THEN <<>>
  ELSE LET file == Head(fs)
           p == processFile(file)
       IN IF IsImageType(file.type) \/ LowerExt(file.ext) = "heic"
          THEN <<Item(p.mimeType, p.bytes, p.enc, file.stem, file.ext)>>
                 \o IngestFiles(Tail(fs))
          ELSE IngestFiles(Tail(fs))

\* The pre-encoded payloads of a request: m PNG data URLs without a name
DataUrls(m) == [k \in 1..m |-> Item("image/png", 100 + k, "orig", "", "")]

\* The ordered item list the handler builds from a request
Ingested(req) ==
  LET files == IF req.contentType = "multipart/form-data" THEN req.files ELSE <<>>
  IN IngestFiles(files) \o req.imageDataUrls

Request(contentType, bodyOk, files, m, userPrompt) ==
  [contentType |-> contentType, bodyOk |-> bodyOk, files |-> files,
   imageDataUrls |-> DataUrls(m), userPrompt |-> userPrompt]

BatchSizes == (0..MaxBatch) \cup {MaxItems, MaxItems + 1}

\* The page's handleFiles: the selected files the page allows (images, PDFs,
\* names ending in .heic); a selection of more than ten allowed files is
\* refused and the page keeps the files it had
RECURSIVE AllowedFiles(_)
AllowedFiles(fs) ==
  IF fs = <<>> THEN <<>>
  ELSE LET file == Head(fs)
       IN IF \/ IsImageType(file.type)
             \/ file.type = "application/pdf"
             \/ LowerExt(file.ext) = "heic"
          THEN <<file>> \o AllowedFiles(Tail(fs))
          ELSE AllowedFiles(Tail(fs))

handleFiles(selectedFiles, files) ==
  LET allowedFiles == AllowedFiles(selectedFiles)
  IN IF Len(allowedFiles) > MaxItems THEN files ELSE allowedFiles

\* What the user selects or drops on the page
Selections == { <<PngFile>>, <<PdfFile>>, <<PdfFile, PngFile>>,
                <<HeicFile>>, <<BadHeicFile, PngFile>>, <<PngFile, ScreenFile>>,
                <<HeicFile, HeicTypeFile>>, <<ScanHeicFile>>,
                <<TxtFile, PngFile>>, [k \in 1..(MaxItems + 1) |-> PngFile] }

\* The files of a multipart request: processImages appends the page's files
\* in order, and sends nothing when it has none
FileLists == { handleFiles(s, <<>>) : s \in Selections } \ { <<>> }

Requests ==
  { Request("application/json", FALSE, <<>>, 0, "") }
  \cup { Request("application/json", TRUE, <<>>, m, "") : m \in BatchSizes }
  \cup { Request("multipart/form-data", TRUE, fs, 0, "by app") : fs \in FileLists }

\* ------------------------------------------------------------------------
\* The inference collaborator's responses to a per-item request
\* ------------------------------------------------------------------------

\* The members of the object a per-item response carries
Fields(content, text, theme, confidence) ==
  [content |-> content, extracted_text |-> text, main_theme |-> theme,
   confidence |-> confidence]

NoFields == Fields("", Str("", 0), "", JVal("undefined", 0, 0))

ItemResponse(throws, text, fields) ==
  [throws |-> throws, text |-> text, fields |-> fields]

ItemResponses ==
  { ItemResponse(TRUE, <<>>, NoFields),
    ItemResponse(FALSE, <<"{", "members", "}">>,
       Fields("pay slip", Str("t1", 200), "Finance", JVal("number", 150, 0))),
    ItemResponse(FALSE, <<"fence", "{", "members", "}", "fence">>,
       Fields("invoice", Str("t2", 40), "finance", JVal("number", -5, 0))),
    ItemResponse(FALSE, <<"prose", "{", "members", "}", "prose">>,
       Fields("login  form", Str("t3", 151), "CODE", JVal("number", 85, 5))),
    ItemResponse(FALSE, <<"json", "{", "members", "}">>,
       Fields("invoice", Str("t2", 150), "finance", JVal("null", 0, 0))),
    ItemResponse(FALSE, <<"prose">>, NoFields),
    ItemResponse(FALSE, <<"null">>, NoFields),
    ItemResponse(FALSE, <<"num">>, NoFields),
    ItemResponse(FALSE, <<"{", "}">>, NoFields),
    ItemResponse(FALSE, <<"{", "members", "}", "prose", "{", "members", "}">>,
       Fields("invoice", Str("t2", 40), "code", JVal("number", 85, 0))),
    ItemResponse(FALSE, <<"{", "members", "}">>,
       Fields("receipt", Str("", 0), "finance", JVal("number", 0, 0))),
    ItemResponse(FALSE, <<"{", "members", "}">>,
       Fields("", Str("t4", 10), "code", JVal("string", 0, 0))),
    ItemResponse(FALSE, <<"{", "members", "}">>,
       Fields("receipt", Str("t5", 30), "", JVal("numstring", 90, 0))) }

\* The response every item of a batch larger than MaxBatch gets
PlainResponse ==
  ItemResponse(FALSE, <<"{", "members", "}">>,
     Fields("invoice", Str("t2", 40), "finance", JVal("number", 85, 0)))

\* ------------------------------------------------------------------------
\* Per-item analysis (PHASE 1)
\* ------------------------------------------------------------------------

\* item.name || `${item.type}_${index + 1}`
FileName(item, index) ==
  IF item.stem # "" \/ item.ext # ""
  THEN [stem |-> item.stem, ext |-> item.ext, n |-> 0]
  ELSE [stem |-> "image_", ext |-> "", n |-> index + 1]

\* The object substituted when neither parse succeeds
FallbackAnalysis(index) ==
  [kind |-> "object",
   fields |-> [content |-> Name("image_document_", index + 1),
               extracted_text |-> Str("Could not extract text", 22),
               main_theme |-> "misc",
               confidence |-> JVal("number", ConfidenceFallback, 0)]]

\* The value a successful JSON.parse gives
ParsedValue(kind, fields) ==
  IF kind = "object"
  THEN [kind |-> "object",
        fields |-> [fields EXCEPT !.content = Name(fields.content, 0)]]
  ELSE [kind |-> kind,
        fields |-> [NoFields EXCEPT !.content = NoName]]

\* The try/catch around JSON.parse: direct parse, else the brace match,
\* else the fallback object
ParseAnalysis(resp, index) ==
  LET cleanResponseText == CleanResponseText(resp.text)
      first == JSONParse(cleanResponseText)
      jsonMatch == BraceMatch(cleanResponseText)
      second == IF jsonMatch = <<>> THEN "error" ELSE JSONParse(jsonMatch)
  IN IF first # "error" THEN ParsedValue(first, resp.fields)
     ELSE IF second # "error" THEN ParsedValue(second, resp.fields)
     ELSE FallbackAnalysis(index)

\* ErrorAnalysis with the content of the one-phase handler's error record
ErrorAnalysis_Screenshot(item, index) ==
  [index |-> index,
   content |-> Name("error_screenshot_", index + 1),
   extracted_text |-> Str("Processing failed", 17),
   main_theme |-> "misc",
   confidence |-> Num(0, 0),
   fileName |-> FileName(item, index)]

\* The record returned by the catch of the per-item callback
ErrorAnalysis(item, index) ==
  [index |-> index,
   content |-> Name("error_image_", index + 1),
   extracted_text |-> Str("Processing failed", 17),
   main_theme |-> "misc",
   confidence |-> Num(0, 0),
   fileName |-> FileName(item, index)]

\* The record returned after parsing: every member cleaned
CleanedAnalysis(item, index, analysis) ==
  LET f == analysis.fields
  IN [index |-> index,
      content |-> IF f.content.base = "" THEN Name("image_document_", index + 1)
                  ELSE Name(CollapseWhitespace(f.content.base), f.content.n),
      extracted_text |-> Substring(f.extracted_text, TextLimit),
      main_theme |-> ToLowerCase(IF f.main_theme = "" THEN "misc" ELSE f.main_theme),
      confidence |-> CleanConfidence(f.confidence),
      fileName |-> FileName(item, index)]

\* The async callback of allItems.map: a thrown call, or a member access on
\* a parsed null, lands in the catch
InitialAnalysis(item, index, resp) ==
  IF resp.throws THEN ErrorAnalysis(item, index)
  ELSE LET analysis == ParseAnalysis(resp, index)
       IN IF analysis.kind = "null" THEN ErrorAnalysis(item, index)
          ELSE CleanedAnalysis(item, index, analysis)

\* ------------------------------------------------------------------------
\* Category synthesis (PHASE 2)
\* ------------------------------------------------------------------------

Range(f) == {f[i] : i \in DOMAIN f}

\* A category description: a text, and for the generated
\* `Images related to ${theme}` the theme it ends with
Description(text, theme) == [text |-> text, theme |-> theme]

\* The value of one member of "categories": an object with an optional
\* "images" array, or null
CategoryInfo(description, hasImages, images) ==
  [kind |-> "object", description |-> description, hasImages |-> hasImages,
   images |-> images]
NullInfo ==
  [kind |-> "null", description |-> Description("", ""), hasImages |-> FALSE,
   images |-> <<>>]

Category(name, info) == [name |-> name, info |-> info]

\* A parsed categorization: kind is "object", "null" or "number"; an object
\* may lack the "categories" member; the members keep their order
Categorization(kind, hasCategories, categories) ==
  [kind |-> kind, hasCategories |-> hasCategories, categories |-> categories]

SynthResponse(throws, text, categories) ==
  [throws |-> throws, text |-> text, categories |-> categories]

Cat(name, images) == Category(name, CategoryInfo(Description("group", ""), TRUE, images))

SynthResponses ==
  { SynthResponse(TRUE, <<>>, <<>>),
    SynthResponse(FALSE, <<"prose">>, <<>>),
    SynthResponse(FALSE, <<"prose", "{", "members", "}", "prose">>,
                  << Cat("docs", <<0, 1>>) >>),
    SynthResponse(FALSE, <<"null">>, <<>>),
    SynthResponse(FALSE, <<"num">>, <<>>),
    SynthResponse(FALSE, <<"{", "}">>, <<>>),
    SynthResponse(FALSE, <<"fence", "{", "members", "}", "fence">>,
                  << Cat("docs", <<0>>), Cat("shots", <<1>>) >>),
    SynthResponse(FALSE, <<"{", "members", "}">>, << Cat("docs", <<0, 1>>) >>),
    SynthResponse(FALSE, <<"{", "members", "}">>, << Cat("docs", <<0>>) >>),
    SynthResponse(FALSE, <<"{", "members", "}">>,
                  << Cat("docs", <<0>>), Cat("shots", <<0, 1>>) >>),
    SynthResponse(FALSE, <<"{", "members", "}">>, << Cat("docs", <<0, 0, 1>>) >>),
    SynthResponse(FALSE, <<"{", "members", "}">>,
                  << Cat("docs", <<0, 1>>), Category("rest", NullInfo) >>),
    SynthResponse(FALSE, <<"{", "members", "}">>,
                  << Category("rest", NullInfo), Cat("docs", <<0, 1>>) >>),
    SynthResponse(FALSE, <<"{", "members", "}">>,
                  << Category("empty", CategoryInfo(Description("group", ""), FALSE, <<>>)),
                     Cat("docs", <<0, 1>>) >>),
    SynthResponse(FALSE, <<"{", "members", "}">>,
                  << Cat("shots", <<1>>), Cat("docs", <<0>>) >>),
    SynthResponse(FALSE, <<"{", "members", "}">>, << Cat("docs", <<0, 1, 7>>) >>) }

\* The response the synthesizer gives for a batch larger than MaxBatch
PlainSynthResponse ==
  SynthResponse(FALSE, <<"{", "members", "}">>, << Cat("docs", <<0, 1>>) >>)

\* [...new Set(initialAnalyses.map(a => a.main_theme))]: the distinct themes
\* in order of first occurrence
RECURSIVE Themes(_)
Themes(analyses) ==
  IF analyses = <<>> THEN <<>>
  ELSE LET rest == Themes(SubSeq(analyses, 1, Len(analyses) - 1))
           theme == analyses[Len(analyses)].main_theme
       IN IF theme \in Range(rest) THEN rest ELSE Append(rest, theme)

\* ThemeIndices with positions counted from 1
RECURSIVE ThemeIndices_OneBased(_, _)
ThemeIndices_OneBased(analyses, theme) ==
  IF analyses = <<>> THEN <<>>
  ELSE LET rest == ThemeIndices_OneBased(SubSeq(analyses, 1, Len(analyses) - 1), theme)
       IN IF analyses[Len(analyses)].main_theme = theme
          THEN Append(rest, Len(analyses)) ELSE rest

\* The indices (0-based, ascending) of the records with the given theme
RECURSIVE ThemeIndices(_, _)
ThemeIndices(analyses, theme) ==
  IF analyses = <<>> THEN <<>>
  ELSE LET rest == ThemeIndices(SubSeq(analyses, 1, Len(analyses) - 1), theme)
       IN IF analyses[Len(analyses)].main_theme = theme
          THEN Append(rest, Len(analyses) - 1) ELSE rest

\* The catch of PHASE 2: one category per theme
FallbackCategorization(analyses) ==
  LET themes == Themes(analyses)
  IN Categorization("object", TRUE,
       [k \in 1..Len(themes) |->
          Category(themes[k],
                   CategoryInfo(Description("Images related to ", themes[k]), TRUE,
                                ThemeIndices(analyses, themes[k])))])

\* The try/catch of PHASE 2: the call, the cleaning and a single JSON.parse;
\* a throw of either gives the fallback
Categorize(resp, analyses) ==
  LET cleanCategoryResponse == CleanResponseText(resp.text)
      parsed == JSONParse(cleanCategoryResponse)
  IN IF resp.throws \/ parsed = "error" THEN FallbackCategorization(analyses)
     ELSE IF parsed = "object" THEN Categorization("object", TRUE, resp.categories)
     ELSE IF parsed = "empty" THEN Categorization("object", FALSE, <<>>)
     ELSE Categorization(parsed, FALSE, <<>>)

\* ------------------------------------------------------------------------
\* Result assembly (PHASE 3)
\* ------------------------------------------------------------------------

\* categorization.categories || {}  (a null categorization throws before)
CategoriesOf(categorization) ==
  IF categorization.hasCategories THEN categorization.categories ELSE <<>>

\* FindCategory returning the last entry listing the index
RECURSIVE FindCategory_LastMatch(_, _)
FindCategory_LastMatch(entries, index) ==
  IF entries = <<>> THEN [threw |-> FALSE, found |-> FALSE, name |-> ""]
  ELSE LET categoryInfo == Head(entries).info
           later == FindCategory_LastMatch(Tail(entries), index)
       IN IF categoryInfo.kind = "null"
          THEN [threw |-> TRUE, found |-> FALSE, name |-> ""]
          ELSE IF later.threw \/ later.found THEN later
          ELSE IF categoryInfo.hasImages /\ index \in Range(categoryInfo.images)
          THEN [threw |-> FALSE, found |-> TRUE, name |-> Head(entries).name]
          ELSE later

\* Object.entries(...).find(([_, categoryInfo]) =>
\*   categoryInfo.images && categoryInfo.images.includes(index)):
\* the first entry listing the index; reading .images of a null entry throws
RECURSIVE FindCategory(_, _)
FindCategory(entries, index) ==
  IF entries = <<>> THEN [threw |-> FALSE, found |-> FALSE, name |-> ""]
  ELSE LET categoryInfo == Head(entries).info
       IN IF categoryInfo.kind = "null"
          THEN [threw |-> TRUE, found |-> FALSE, name |-> ""]
          ELSE IF categoryInfo.hasImages /\ index \in Range(categoryInfo.images)
          THEN [threw |-> FALSE, found |-> TRUE, name |-> Head(entries).name]
          ELSE FindCategory(Tail(entries), index)

\* Whether building the results throws
AssemblyThrows(analyses, categorization) ==
  \/ categorization.kind = "null"
  \/ \E p \in 1..Len(analyses) :
        FindCategory(CategoriesOf(categorization), p - 1).threw

\* CategoryName defaulting to the per-item fallback theme
CategoryName_DefaultMisc(categorization, index) ==
  LET categoryEntry == FindCategory(CategoriesOf(categorization), index)
  IN IF categoryEntry.found THEN categoryEntry.name ELSE "misc"

\* const categoryName = categoryEntry ? categoryEntry[0] : 'uncategorized'
CategoryName(categorization, index) ==
  LET categoryEntry == FindCategory(CategoriesOf(categorization), index)
  IN IF categoryEntry.found THEN categoryEntry.name ELSE "uncategorized"

\* One entry of results
Result(analysis, index, categorization) ==
  [index |-> analysis.index,
   analysis |-> [content |-> analysis.content,
                 category |-> CategoryName(categorization, index),
                 extracted_text |-> analysis.extracted_text,
                 confidence |-> analysis.confidence],
   status |-> "success",
   fileType |-> "image",
   fileName |-> analysis.fileName]

\* initialAnalyses.map((analysis, index) => ...)
Results(analyses, categorization) ==
  [p \in 1..Len(analyses) |-> Result(analyses[p], p - 1, categorization)]

\* ------------------------------------------------------------------------
\* Responses
\* ------------------------------------------------------------------------

NoResponse ==
  [status |-> 0, error |-> "", hasResults |-> FALSE, results |-> <<>>,
   categories |-> <<>>, userPrompt |-> ""]

\* ErrorResponse answering every error with status 400
ErrorResponse_BadRequest(error, status) ==
  [status |-> 400, error |-> error, hasResults |-> FALSE, results |-> <<>>,
   categories |-> <<>>, userPrompt |-> ""]

\* NextResponse.json({ error }, { status })
ErrorResponse(error, status) ==
  [status |-> status, error |-> error, hasResults |-> FALSE, results |-> <<>>,
   categories |-> <<>>, userPrompt |-> ""]

\* NextResponse.json({ results, categories, userPrompt })
SuccessResponse(res, categories, userPrompt) ==
  [status |-> 200, error |-> "", hasResults |-> TRUE, results |-> res,
   categories |-> categories, userPrompt |-> userPrompt]

\* ------------------------------------------------------------------------
\* The client's archive (downloadOrganizedZip)
\* ------------------------------------------------------------------------

\* One file of the archive: its folder, its name (a content slug, the date
\* of the download, an extension) and the bytes stored
ZipEntry(folder, content, ext, bytes) ==
  [folder |-> folder, content |-> content, ext |-> ext, bytes |-> bytes]

\* zip.file('analysis_summary.txt', summaryContent)
SummaryEntry == ZipEntry("", Name("analysis_summary", 0), "txt", 0)

Zip(state, entries) == [state |-> state, entries |-> entries]
NoZip == Zip("none", {})

\* folder.file(fileName, fileBuffer): an entry with the same path is replaced
ZipFile(entries, e) ==
  {x \in entries : ~(x.folder = e.folder /\ x.content = e.content /\ x.ext = e.ext)}
    \cup {e}

\* The loop of downloadOrganizedZip over the first k results:
\* generateFileName gives `${analysis.content}_${date}.${extension}`
RECURSIVE ZipResults(_, _, _)
ZipResults(res, files, k) ==
  IF k = 0 THEN {}
  ELSE LET result == res[k]
           before == ZipResults(res, files, k - 1)
       IN IF result.status = "success" /\ result.index + 1 \in DOMAIN files
          THEN ZipFile(before,
                       ZipEntry(result.analysis.category, result.analysis.content,
                                files[result.index + 1].ext,
                                files[result.index + 1].bytes))
          ELSE before

\* generateSummaryReport throws on a category without description or images
\* list and on a result whose file is missing
SummaryThrows(res, categories, files) ==
  \/ \E k \in DOMAIN categories :
        categories[k].info.kind = "null" \/ ~categories[k].info.hasImages
  \/ \E k \in DOMAIN res : res[k].index + 1 \notin DOMAIN files

\* ------------------------------------------------------------------------
\* The handler as a state machine
\* ------------------------------------------------------------------------

VARIABLES
  request,          \* the request being handled
  pc,               \* "start", "analyze", "await", "synth", "done"
  allItems,         \* the ingested items
  stub,             \* the collaborator's response to each per-item call
  pending,          \* positions whose per-item call has not returned
  initialAnalyses,  \* the per-item records, by position
  synthResponse,    \* the collaborator's response to the synthesizer call
  calls,            \* every inference call issued, in order
  response,         \* the response returned to the caller
  zip               \* the archive the client builds from the response

vars == <<request, pc, allItems, stub, pending, initialAnalyses, synthResponse,
          calls, response, zip>>

\* buildPromptWithUserInstructions / the categoryPrompt template: which
\* template the prompt is, and the user instructions appended to it
Prompt(base, userPrompt) == [base |-> base, userPrompt |-> userPrompt]
buildPromptWithUserInstructions(basePrompt, userPrompt) ==
  IF userPrompt = "" THEN Prompt(basePrompt, "") ELSE Prompt(basePrompt, userPrompt)

\* One genAI.models.generateContent call
Call(kind, index, prompt) == [kind |-> kind, index |-> index, prompt |-> prompt]

\* The place of a record that has not been produced yet
NoAnalysis ==
  [index |-> -1, content |-> NoName, extracted_text |-> Str("", 0),
   main_theme |-> "", confidence |-> NaN,
   fileName |-> [stem |-> "", ext |-> "", n |-> 0]]

NoSynthResponse == SynthResponse(FALSE, <<>>, <<>>)

\* The per-item responses explored for a batch of n items
StubsFor(n) ==
  IF n <= MaxBatch THEN [1..n -> ItemResponses]
  ELSE {[p \in 1..n |-> PlainResponse]}

SynthResponsesFor(n) ==
  IF n <= MaxBatch THEN SynthResponses ELSE {PlainSynthResponse}

Init ==
  /\ request \in Requests
  /\ pc = "start"
  /\ allItems = <<>>
  /\ stub = <<>>
  /\ pending = {}
  /\ initialAnalyses = <<>>
  /\ synthResponse = NoSynthResponse
  /\ calls = <<>>
  /\ response = NoResponse
  /\ zip = NoZip

\* The count validation without the upper bound
Validate_NoUpperBound(items) ==
  IF Len(items) = 0 THEN ErrorResponse("No images provided", 400)
  ELSE NoResponse

\* The count validation: the error response, or NoResponse when accepted
Validate(items) ==
  IF Len(items) = 0 THEN ErrorResponse("No images provided", 400)
  ELSE IF Len(items) > MaxItems THEN ErrorResponse("Maximum 10 images allowed", 400)
  ELSE NoResponse

\* POST up to the count validation: body parsing, file processing, checks
Ingest ==
  /\ pc = "start"
  /\ IF ~request.bodyOk
     THEN /\ response' = ErrorResponse("Internal server error", 500)
          /\ pc' = "done"
          /\ UNCHANGED allItems
     ELSE /\ allItems' = Ingested(request)
          /\ response' = Validate(Ingested(request))
          /\ pc' = IF Validate(Ingested(request)) = NoResponse THEN "analyze" ELSE "done"
  /\ UNCHANGED <<request, stub, pending, initialAnalyses, synthResponse, calls, zip>>

\* allItems.map(async ...) up to the first await of each callback: one
\* inference call per item, issued in index order
StartAnalyses ==
  /\ pc = "analyze"
  /\ \E st \in StubsFor(Len(allItems)) : stub' = st
  /\ calls' = [p \in 1..Len(allItems) |->
                 Call("item", p - 1,
                      buildPromptWithUserInstructions("analysis", request.userPrompt))]
  /\ pending' = 1..Len(allItems)
  /\ initialAnalyses' = [p \in 1..Len(allItems) |-> NoAnalysis]
  /\ pc' = "await"
  /\ UNCHANGED <<request, allItems, synthResponse, response, zip>>

\* CompleteItem issuing a second call when the first one threw
CompleteItem_RetryOnThrow(p) ==
  /\ pc = "await"
  /\ p \in pending
  /\ initialAnalyses' =
       [initialAnalyses EXCEPT ![p] = InitialAnalysis(allItems[p], p - 1, stub[p])]
  /\ pending' = pending \ {p}
  /\ calls' = IF stub[p].throws THEN Append(calls, calls[p]) ELSE calls
  /\ UNCHANGED <<request, pc, allItems, stub, synthResponse, response, zip>>

\* CompleteItem writing its record through a variable all callbacks share
CompleteItem_SharedRecord(p) ==
  /\ pc = "await"
  /\ p \in pending
  /\ initialAnalyses' =
       [q \in DOMAIN initialAnalyses |->
          IF q = p \/ q \notin pending
          THEN InitialAnalysis(allItems[p], p - 1, stub[p])
          ELSE initialAnalyses[q]]
  /\ pending' = pending \ {p}
  /\ UNCHANGED <<request, pc, allItems, stub, synthResponse, calls, response, zip>>

\* CompleteItem storing the record in order of completion
CompleteItem_CompletionOrder(p) ==
  /\ pc = "await"
  /\ p \in pending
  /\ initialAnalyses' =
       [initialAnalyses EXCEPT ![Len(allItems) - Cardinality(pending) + 1] =
          InitialAnalysis(allItems[p], p - 1, stub[p])]
  /\ pending' = pending \ {p}
  /\ UNCHANGED <<request, pc, allItems, stub, synthResponse, calls, response, zip>>

\* The rest of one callback once its call has returned or thrown;
\* Promise.all stores its value at the callback's position
CompleteItem(p) ==
  /\ pc = "await"
  /\ p \in pending
  /\ initialAnalyses' =
       [initialAnalyses EXCEPT ![p] = InitialAnalysis(allItems[p], p - 1, stub[p])]
  /\ pending' = pending \ {p}
  /\ UNCHANGED <<request, pc, allItems, stub, synthResponse, calls, response, zip>>

\* CallSynthesizer without waiting for the per-item analyses
CallSynthesizer_NoWait ==
  /\ pc = "await"
  /\ \E r \in SynthResponsesFor(Len(allItems)) : synthResponse' = r
  /\ calls' = Append(calls, Call("synth", -1, Prompt("category", request.userPrompt)))
  /\ pc' = "synth"
  /\ UNCHANGED <<request, allItems, stub, pending, initialAnalyses, response, zip>>

\* Promise.all has resolved: the single categorization call is issued
CallSynthesizer ==
  /\ pc = "await"
  /\ pending = {}
  /\ \E r \in SynthResponsesFor(Len(allItems)) : synthResponse' = r
  /\ calls' = Append(calls, Call("synth", -1, Prompt("category", request.userPrompt)))
  /\ pc' = "synth"
  /\ UNCHANGED <<request, allItems, stub, pending, initialAnalyses, response, zip>>

\* The categorization call has returned or thrown: parse or fall back,
\* assemble the results, respond; a throw in PHASE 3 reaches the outer catch
SynthReturn ==
  /\ pc = "synth"
  /\ LET categorization == Categorize(synthResponse, initialAnalyses)
     IN response' =
          IF AssemblyThrows(initialAnalyses, categorization)
          THEN ErrorResponse("Internal server error", 500)
          ELSE SuccessResponse(Results(initialAnalyses, categorization),
                               CategoriesOf(categorization),
                               request.userPrompt)
  /\ pc' = "done"
  /\ UNCHANGED <<request, allItems, stub, pending, initialAnalyses, synthResponse, calls, zip>>

\* downloadOrganizedZip in the page that sent its files as a multipart
\* request and stored the successful response's results and categories
DownloadOrganizedZip ==
  /\ pc = "done"
  /\ zip.state = "none"
  /\ request.contentType = "multipart/form-data"
  /\ response.status = 200
  /\ Len(response.results) # 0
  /\ Len(request.files) # 0
  /\ zip' = IF SummaryThrows(response.results, response.categories, request.files)
            THEN Zip("failed", {})
            ELSE Zip("built",
                     ZipResults(response.results, request.files, Len(response.results))
                       \cup {SummaryEntry})
  /\ UNCHANGED <<request, pc, allItems, stub, pending, initialAnalyses,
                 synthResponse, calls, response>>

Next ==
  \/ Ingest
  \/ StartAnalyses
  \/ \E p \in 1..MaxItems : CompleteItem(p)
  \/ CallSynthesizer
  \/ SynthReturn
  \/ DownloadOrganizedZip

Spec == Init /\ [][Next]_vars

\* ------------------------------------------------------------------------
\* Properties
\* ------------------------------------------------------------------------

\* The request passed the count validation
Accepted == pc # "start" /\ request.bodyOk /\ Len(allItems) \in 1..MaxItems

Done == pc = "done"
Succeeded == pc = "done" /\ response.status = 200 /\ response.hasResults

SynthCalled == \E k \in DOMAIN calls : calls[k].kind = "synth"

\* Number of times index i is listed in one category's images
ListedIn(category, i) ==
  Cardinality({k \in DOMAIN category.info.images : category.info.images[k] = i})

\* Number of times index i is listed over all categories of a map
RECURSIVE Listed(_, _)
Listed(categories, i) ==
  IF categories = <<>> THEN 0
  ELSE ListedIn(Head(categories), i) + Listed(Tail(categories), i)

\* C1: for every accepted batch of n items, whatever the per-item and
\* synthesizer outcomes, the handler ends with a results list of exactly n
\* entries, entry k carrying index k.
C1_ResultsCoverBatch ==
  (Done /\ Accepted) =>
     /\ response.hasResults
     /\ Len(response.results) = Len(allItems)
     /\ \A p \in 1..Len(allItems) : response.results[p].index = p - 1

\* C2: an ingested item count of 0 or more than 10 gives the 400 validation
\* error response and no inference call is ever made for the request.
C2_RejectedBatchMakesNoCall ==
  (pc # "start" /\ request.bodyOk /\ (Len(allItems) = 0 \/ Len(allItems) > 10)) =>
     /\ pc = "done"
     /\ response.status = 400
     /\ response.error \in {"No images provided", "Maximum 10 images allowed"}
     /\ ~response.hasResults
     /\ calls = <<>>

C2_Witness ==
  /\ pc = "done"
  /\ request.bodyOk
  /\ Len(allItems) = 11
  /\ response.status = 400

\* C3: in every successful response the categories map partitions the
\* batch: every index 0..n-1 is listed exactly once over all categories
\* and no other index is listed.
C3_CategoriesPartitionBatch ==
  Succeeded =>
     /\ \A i \in 0..(Len(allItems) - 1) : Listed(response.categories, i) = 1
     /\ \A k \in DOMAIN response.categories :
           Range(response.categories[k].info.images) \subseteq 0..(Len(allItems) - 1)

\* C4: when the per-item call throws for item i, Result[i] has status
\* "error" and confidence 0, and every item whose own call did not throw has
\* status "success".
C4_ThrownItemHasStatusError ==
  Succeeded =>
     \A p \in 1..Len(allItems) :
        IF stub[p].throws
        THEN /\ response.results[p].status = "error"
             /\ response.results[p].analysis.confidence = Num(0, 0)
        ELSE response.results[p].status = "success"

\* Both the direct parse and the brace-extraction retry fail
Unparseable(text) ==
  /\ JSONParse(CleanResponseText(text)) = "error"
  /\ JSONParse(BraceMatch(CleanResponseText(text))) = "error"

\* C5: an item whose response text yields no object after both parses is
\* reported, in the response that carries the results, with status "error"
\* and the fixed fallback analysis.
C5_UnparseableItemHasStatusError ==
  Succeeded =>
     \A p \in 1..Len(allItems) :
        (~stub[p].throws /\ Unparseable(stub[p].text)) =>
           /\ response.results[p].status = "error"
           /\ response.results[p].analysis.content = Name("image_document_", p)
           /\ response.results[p].analysis.extracted_text = Str("Could not extract text", 22)

C6_Witness ==
  /\ Done
  /\ SynthCalled
  /\ synthResponse.throws
  /\ Len(response.categories) >= 2
  /\ \E k \in DOMAIN response.categories :
        Len(response.categories[k].info.images) >= 2

\* C6: when the categorization call throws, the response is a success whose
\* categories map is non-empty and has one category per distinct theme of
\* the analysis records, described "Images related to {theme}" and listing
\* exactly the indices of the records with that theme; every item is in
\* exactly one category and Result[i].category is record i's theme.
C6_ThrownSynthPartitionsByTheme ==
  (Done /\ SynthCalled /\ synthResponse.throws) =>
     /\ response.status = 200
     /\ response.hasResults
     /\ response.categories # <<>>
     /\ {response.categories[k].name : k \in DOMAIN response.categories}
          = {initialAnalyses[p].main_theme : p \in DOMAIN initialAnalyses}
     /\ \A k, l \in DOMAIN response.categories :
           response.categories[k].name = response.categories[l].name => k = l
     /\ \A k \in DOMAIN response.categories :
           LET c == response.categories[k]
           IN /\ c.info.kind = "object"
              /\ c.info.description = Description("Images related to ", c.name)
              /\ c.info.hasImages
              /\ Range(c.info.images) =
                   {p - 1 : p \in {q \in DOMAIN initialAnalyses :
                                      initialAnalyses[q].main_theme = c.name}}
     /\ \A i \in 0..(Len(allItems) - 1) : Listed(response.categories, i) = 1
     /\ \A p \in DOMAIN initialAnalyses :
           response.results[p].analysis.category = initialAnalyses[p].main_theme

\* The synthesizer outcome yields no valid structured category object
NoValidCategoryObject(r) ==
  \/ r.throws
  \/ JSONParse(CleanResponseText(r.text)) \in {"error", "null"}
  \/ /\ JSONParse(CleanResponseText(r.text)) = "object"
     /\ \E k \in DOMAIN r.categories : r.categories[k].info.kind = "null"

\* C7: whatever synthesizer outcome yields no valid category object (a
\* throw, unparseable text, JSON null, a category whose value is null), the
\* handler returns a success response with results for all n items.
C7_SynthFailureNeverFatal ==
  (Done /\ SynthCalled /\ NoValidCategoryObject(synthResponse)) =>
     /\ response.status = 200
     /\ response.hasResults
     /\ Len(response.results) = Len(allItems)

\* C8: a request ends either with a results list or with an error response
\* issued before any inference call; no error response follows a call.
C8_NoErrorAfterInferenceCall ==
  Done =>
     \/ response.status = 200 /\ response.hasResults
     \/ response.status \in {400, 500} /\ ~response.hasResults /\ calls = <<>>

\* The members of the response's object are the ones cleaned into the record
MembersUsed(r) ==
  /\ ~r.throws
  /\ \/ JSONParse(CleanResponseText(r.text)) = "object"
     \/ /\ JSONParse(CleanResponseText(r.text)) = "error"
        /\ JSONParse(BraceMatch(CleanResponseText(r.text))) = "object"

IntegerInRange(c) == ~c.nan /\ c.frac = 0 /\ c.int >= 0 /\ c.int <= 100

\* C9: the confidence of every analysis record and every Result is an
\* integer in [0,100]: a returned number above 100 becomes 100, a negative
\* one 0, a non-numeric value 50.
C9_ConfidenceIsClampedInteger ==
  /\ \A p \in DOMAIN initialAnalyses :
        p \notin pending =>
           /\ IntegerInRange(initialAnalyses[p].confidence)
           /\ MembersUsed(stub[p]) =>
                LET raw == stub[p].fields.confidence
                IN /\ (raw.t = "number" /\ raw.int >= 100) =>
                         initialAnalyses[p].confidence = Num(100, 0)
                   /\ (raw.t = "number" /\ raw.int < 0) =>
                         initialAnalyses[p].confidence = Num(0, 0)
                   /\ raw.t \in {"string", "undefined"} =>
                         initialAnalyses[p].confidence = Num(50, 0)
  /\ Succeeded =>
        \A p \in DOMAIN response.results :
           IntegerInRange(response.results[p].analysis.confidence)

C10_Witness ==
  /\ Succeeded
  /\ \E p \in DOMAIN response.results :
        /\ MembersUsed(stub[p])
        /\ stub[p].fields.extracted_text.len > 150
        /\ response.results[p].analysis.extracted_text.len = 150

\* C10: in every Result of every successful response extracted_text has at
\* most 150 characters, whatever length the collaborator returned and on
\* every path (parsed, parse fallback, error record).
C10_ExtractedTextAtMost150 ==
  Succeeded =>
     \A p \in DOMAIN response.results :
        response.results[p].analysis.extracted_text.len <= 150

\* The records as a function of the request and of the collaborator's
\* per-item responses alone, computed item by item in index order
SequentialAnalyses ==
  [p \in 1..Len(Ingested(request)) |->
     InitialAnalysis(Ingested(request)[p], p - 1, stub[p])]

\* The response as a function of the records and of the collaborator's
\* response to the categorization request
ResponseFor(analyses) ==
  LET categorization == Categorize(synthResponse, analyses)
  IN IF AssemblyThrows(analyses, categorization)
     THEN ErrorResponse("Internal server error", 500)
     ELSE SuccessResponse(Results(analyses, categorization),
                          CategoriesOf(categorization), request.userPrompt)

C11_Witness ==
  /\ Succeeded
  /\ Len(allItems) >= 2
  /\ stub[1] # stub[2]
  /\ response.results[1].analysis.content # response.results[2].analysis.content

\* C11: the handler is deterministic in its inputs: with a fixed response
\* per inference request, the results and categories returned are the same
\* whatever order the concurrent per-item calls complete in.
C11_ResponseDeterminedByInputs ==
  (Done /\ SynthCalled) =>
     /\ initialAnalyses = SequentialAnalyses
     /\ response = ResponseFor(initialAnalyses)

\* C12: the synthesizer's response gets the same three-step recovery as a
\* per-item response: text that does not parse directly but contains a
\* brace-delimited object gives that object's categories; the theme
\* fallback is used only when both parses fail.
C12_SynthBraceExtractionRetry ==
  (Done /\ SynthCalled /\ ~synthResponse.throws
        /\ JSONParse(CleanResponseText(synthResponse.text)) = "error"
        /\ JSONParse(BraceMatch(CleanResponseText(synthResponse.text))) = "object") =>
     /\ response.status = 200
     /\ response.categories = synthResponse.categories

\* The file entries of the archive (all but the summary)
FileEntries == zip.entries \ {SummaryEntry}

\* The successful results whose file exists
ArchivableResults ==
  {k \in DOMAIN response.results :
     /\ response.results[k].status = "success"
     /\ response.results[k].index + 1 \in DOMAIN request.files}

\* C13: the archive holds every successfully analyzed item exactly once,
\* under its category folder: the number of file entries equals the number
\* of successful results whose file exists.
C13_ArchiveHoldsEveryItemOnce ==
  zip.state = "built" =>
     /\ Cardinality(FileEntries) = Cardinality(ArchivableResults)
     /\ \A k \in ArchivableResults :
           \E e \in FileEntries :
              /\ e.folder = response.results[k].analysis.category
              /\ e.bytes = request.files[response.results[k].index + 1].bytes

C14_Witness ==
  /\ Done
  /\ ~request.bodyOk
  /\ response.status = 500
  /\ calls = <<>>

\* C14: an unhandled internal fault such as a malformed request body gives
\* {error: "Internal server error"} with status 500 and neither results
\* nor categories; an error response never carries partial results.
C14_InternalFaultGivesBare500 ==
  /\ (Done /\ ~request.bodyOk) =>
        /\ response.status = 500
        /\ response.error = "Internal server error"
  /\ (response.status = 500) => response.error = "Internal server error"
  /\ (response.error # "" \/ response.status \in {400, 500}) =>
        /\ ~response.hasResults
        /\ response.results = <<>>
        /\ response.categories = <<>>

\* The record of step 3 for the item at position p
Step3Record(p, rec) ==
  /\ rec.content = Name("image_document_", p)
  /\ rec.extracted_text = Str("Could not extract text", 22)
  /\ rec.main_theme = "misc"
  /\ rec.confidence = Num(20, 0)

\* The record made from the members of the response's object
MembersRecord(p, rec) ==
  /\ rec.confidence = CleanConfidence(stub[p].fields.confidence)
  /\ rec.extracted_text.id = stub[p].fields.extracted_text.id
  /\ rec.main_theme = ToLowerCase(IF stub[p].fields.main_theme = "" THEN "misc"
                                  ELSE stub[p].fields.main_theme)

\* C15: per-item parsing takes the direct parse, only if that fails the
\* brace-delimited substring, only if that fails the fixed step-3 record;
\* a response that parses at step 1 keeps its object, and a response with
\* no extractable object always yields exactly the step-3 record.
C15_ThreeStepParsing ==
  \A p \in DOMAIN initialAnalyses :
     (p \notin pending /\ ~stub[p].throws) =>
        LET clean == CleanResponseText(stub[p].text)
            first == JSONParse(clean)
            second == JSONParse(BraceMatch(clean))
        IN /\ first = "object" => MembersRecord(p, initialAnalyses[p])
           /\ (first = "error" /\ second = "object") =>
                 MembersRecord(p, initialAnalyses[p])
           /\ (first \notin {"object", "empty"} /\ second \notin {"object", "empty"}) =>
                 Step3Record(p, initialAnalyses[p])

\* The synthesizer's outcome is a throw, unparseable text, or a parsed
\* value whose categories, if any, are all objects
SynthWellFormed(r) ==
  \/ r.throws
  \/ JSONParse(CleanResponseText(r.text)) \in {"error", "number", "empty"}
  \/ /\ JSONParse(CleanResponseText(r.text)) = "object"
     /\ \A k \in DOMAIN r.categories : r.categories[k].info.kind = "object"

CallsOf(kind, index) ==
  {k \in DOMAIN calls : calls[k].kind = kind /\ calls[k].index = index}

C17_Witness ==
  /\ pc = "synth"
  /\ Len(allItems) >= 2
  /\ SynthCalled
  /\ \E p \in DOMAIN stub : stub[p].throws
  /\ \E p \in DOMAIN stub : Unparseable(stub[p].text)

\* C17: the synthesizer is invoked only after all n per-item analyses have
\* finished, exactly once per accepted request; no per-item call is
\* outstanding or started once the synthesizer call has begun.
C17_SynthesizerAfterAllAnalyses ==
  /\ SynthCalled =>
        /\ pending = {}
        /\ pc \in {"synth", "done"}
        /\ Len(initialAnalyses) = Len(allItems)
        /\ \A p \in DOMAIN initialAnalyses : initialAnalyses[p] # NoAnalysis
        /\ \A k \in DOMAIN calls :
              calls[k].kind = "synth" <=> k = Len(allItems) + 1
  /\ Cardinality(CallsOf("synth", -1)) <= 1
  /\ (Done /\ Accepted) => Cardinality(CallsOf("synth", -1)) = 1
  /\ pc = "synth" => SynthCalled

C18_Witness ==
  /\ Done
  /\ Accepted
  /\ Len(allItems) >= 2
  /\ stub[1].throws
  /\ Unparseable(stub[2].text)
  /\ synthResponse.throws
  /\ Len(calls) = Len(allItems) + 1

\* C18: nothing is retried: an accepted batch of n items costs exactly n
\* per-item calls, one per item, and exactly one synthesizer call,
\* whichever of them throw or return unparseable text.
C18_NoCallIsRetried ==
  /\ \A i \in 0..(MaxItems - 1) : Cardinality(CallsOf("item", i)) <= 1
  /\ Len(calls) <= Len(allItems) + 1
  /\ (Done /\ Accepted) =>
        /\ \A i \in 0..(Len(allItems) - 1) : Cardinality(CallsOf("item", i)) = 1
        /\ Len(calls) = Len(allItems) + 1
        /\ calls[Len(calls)].kind = "synth"

C19_Witness ==
  /\ pc = "await"
  /\ Len(allItems) >= 3
  /\ pending = {1}
  /\ stub[2] # stub[3]
  /\ initialAnalyses[2].index = 1
  /\ initialAnalyses[3].index = 2

\* Every produced record is at its item's position and is what the item's
\* own input and response give
RecordsInPlace ==
  /\ \A p \in DOMAIN initialAnalyses :
        IF p \in pending THEN initialAnalyses[p] = NoAnalysis
        ELSE /\ initialAnalyses[p].index = p - 1
             /\ initialAnalyses[p] = InitialAnalysis(allItems[p], p - 1, stub[p])
  /\ Succeeded =>
        \A p \in DOMAIN response.results :
           /\ response.results[p].index = p - 1
           /\ response.results[p].analysis.content = initialAnalyses[p].content
           /\ response.results[p].analysis.confidence = initialAnalyses[p].confidence

\* A produced record is never altered by a later completion
RecordsKept ==
  \A q \in DOMAIN initialAnalyses :
     q \notin pending => (q \in DOMAIN initialAnalyses' /\ initialAnalyses'[q] = initialAnalyses[q])

\* C19: the result does not depend on the interleaving of the concurrent
\* per-item analyses: in every completion order item k's record depends
\* only on item k's input and response and lands at position k, and no
\* item's outcome overwrites or alters another's.
C19_InterleavingIndependent == [](RecordsInPlace) /\ [][RecordsKept]_vars

\* The categories of the response that list index i
Containing(i) ==
  {k \in DOMAIN response.categories :
     /\ response.categories[k].info.kind = "object"
     /\ response.categories[k].info.hasImages
     /\ i \in Range(response.categories[k].info.images)}

C21_Witness ==
  /\ Succeeded
  /\ Len(allItems) >= 2
  /\ Cardinality(Containing(0)) >= 2
  /\ Cardinality(Containing(1)) = 1
  /\ response.results[1].analysis.category = "docs"
  /\ response.results[2].analysis.category = "shots"

\* C21: when the synthesizer's output lists index i in two or more
\* categories, Result[i].analysis.category is the first of them in the
\* map's order, and the results give i that one category only: no later
\* category listing i is the one reported.
C21_FirstListingCategoryWins ==
  Succeeded =>
     \A p \in DOMAIN response.results :
        Cardinality(Containing(p - 1)) >= 2 =>
           LET first == SetMin(Containing(p - 1))
               category == response.results[p].analysis.category
           IN /\ category = response.categories[first].name
              /\ \A k \in Containing(p - 1) \ {first} :
                    response.categories[k].name # category
              /\ Cardinality({q \in DOMAIN response.results :
                                 response.results[q].index = p - 1}) = 1

\* The file is HEIC by its declared type or by its name
IsHeic(file) == file.type = "image/heic" \/ LowerExt(file.ext) = "heic"

\* The uploaded files the handler ingests, and the position each one gets
Kept(files) ==
  {k \in DOMAIN files : IsImageType(files[k].type) \/ LowerExt(files[k].ext) = "heic"}
Rank(files, k) == Cardinality({j \in Kept(files) : j <= k})

C22_Witness ==
  /\ Succeeded
  /\ request.contentType = "multipart/form-data"
  /\ Len(request.files) >= 2
  /\ IsHeic(request.files[1]) /\ request.files[1].sharpOk
  /\ IsHeic(request.files[2]) /\ ~request.files[2].sharpOk
  /\ allItems[1].enc = "jpeg" /\ allItems[1].mime = "image/jpeg"
  /\ allItems[2].enc = "orig" /\ allItems[2].mime = "image/heic"
  /\ Len(response.results) = 2

\* C22: a HEIC file (by type or by name) whose transcoding throws is
\* ingested at its position with its original bytes and declared type and
\* the request goes on to the analyses; when transcoding succeeds the item
\* carries the converted bytes as image/jpeg; any other ingested file
\* passes through unchanged.
C22_HeicSoftFail ==
  (pc # "start" /\ request.bodyOk /\ request.contentType = "multipart/form-data") =>
     /\ Len(allItems) = Cardinality(Kept(request.files))
     /\ \A k \in Kept(request.files) :
           LET file == request.files[k]
               item == allItems[Rank(request.files, k)]
           IN /\ item.stem = file.stem /\ item.ext = file.ext
              /\ item.bytes = file.bytes
              /\ IF IsHeic(file) /\ file.sharpOk
                 THEN item.enc = "jpeg" /\ item.mime = "image/jpeg"
                 ELSE item.enc = "orig" /\ item.mime = file.type
     /\ (\E k \in DOMAIN request.files :
            IsHeic(request.files[k]) /\ ~request.files[k].sharpOk) =>
           /\ response.status \notin {400, 500} \/ calls # <<>>
           /\ pc = "done" => Len(calls) = Len(allItems) + 1

\* C23: in the multipart flow the index of a Result identifies the same
\* file on both sides: for every result r of a successful response, the
\* page's files[r.index] exists and is the file whose analysis produced r
\* (same name, same bytes), also when the selection mixes files the server
\* ingests with files it skips.
C23_IndexNamesSameFileOnBothSides ==
  (Succeeded /\ request.contentType = "multipart/form-data") =>
     \A p \in DOMAIN response.results :
        LET r == response.results[p]
        IN /\ r.index + 1 \in DOMAIN request.files
           /\ request.files[r.index + 1].stem = r.fileName.stem
           /\ request.files[r.index + 1].ext = r.fileName.ext
           /\ request.files[r.index + 1].bytes = allItems[p].bytes

\* The value JSON.parse gave for the response: its kind, from the direct
\* parse or else from the brace match
ParsedKind(r) ==
  LET first == JSONParse(CleanResponseText(r.text))
  IN IF first # "error" THEN first
     ELSE JSONParse(BraceMatch(CleanResponseText(r.text)))

\* The confidence a parsed response carries: zero, null, a non-numeric
\* string, or none at all
CarriesNoConfidence(r) ==
  \/ ParsedKind(r) \in {"empty", "number"}
  \/ /\ ParsedKind(r) = "object"
     /\ \/ r.fields.confidence.t \in {"null", "string", "undefined"}
        \/ /\ r.fields.confidence.t \in {"number", "numstring"}
           /\ r.fields.confidence.int = 0
           /\ r.fields.confidence.frac = 0

CarriesNegativeConfidence(r) ==
  /\ ParsedKind(r) = "object"
  /\ r.fields.confidence.t \in {"number", "numstring"}
  /\ r.fields.confidence.int < 0

\* The defaulting half of C24
ZeroLikeMissing ==
  \A p \in DOMAIN initialAnalyses :
     (p \notin pending /\ ~stub[p].throws /\ CarriesNoConfidence(stub[p])) =>
        initialAnalyses[p].confidence = Num(ConfidenceDefault, 0)

\* The other half of C24
ZeroOnlyFromNegativeOrThrow ==
  \A p \in DOMAIN initialAnalyses :
     (p \notin pending /\ initialAnalyses[p].confidence = Num(0, 0)) =>
        stub[p].throws \/ CarriesNegativeConfidence(stub[p])

\* C24: a parsed per-item response carrying confidence 0, null, NaN, a
\* non-numeric string or no confidence gives a record with confidence 50;
\* a record has confidence 0 only when the returned value was negative or
\* the inference call threw.
C24_ZeroConfidenceTreatedAsMissing ==
  ZeroLikeMissing /\ ZeroOnlyFromNegativeOrThrow

====
